---- MODULE Spec2Model ----
(***************************************************************************)
(* Flight tracker Delhi -> Goa (check-flights.js): the Amadeus adapter     *)
(* (parseAmadeusFlights), the categorizer (categorizeFlights) and one run  *)
(* of main() against the persisted price history.                          *)
(*                                                                         *)
(* A JavaScript value that may be null/undefined is a sequence of length 0 *)
(* (absent) or 1 (present): <<>> is null, <<v>> is the value v.            *)
(*                                                                         *)
(* Prices are whole rupees >= 0.  The file system works: the catch         *)
(* branches of loadPriceHistory and savePriceHistory are not taken.        *)
(***************************************************************************)
EXTENDS Integers, Sequences, FiniteSets, TLC

VARIABLES
    \* ---- the world outside one run
    day,          \* the calendar date the clock shows (getTodayString)
    hour,         \* the hour of day the clock shows (is10AM reads it)
    file,         \* price-history.json: <<>> when absent, else <<history>>
    \* ---- one run of main()
    pc,           \* "idle" | "token" | "searched" | "done" | "fatal"
    token,        \* result of getAmadeusToken: <<>> undefined, <<"tok">>
    flights,      \* result of searchFlights (<<>> again once main() has returned)
    categories,   \* result of categorizeFlights: <<>> before/without, else <<cats>>
    loaded,       \* today's entry as found in the loaded history: <<>> or <<entry>>
    history,      \* the in-memory history of the run: <<>> until loaded
    alerts,       \* the alerts array of the routine check
    emails,       \* the sendEmail calls of the run, in order
    emailEnv,     \* how sendEmail ends in this run: "sent" | "skipped" | "failed"
    failure,      \* the first provider failure of the run: "none" | "token-threw" |
                  \* "token-rejected" | "search-failed"
    startedAt,    \* the clock when the run started
    loads,        \* calls of loadPriceHistory in this run
    saves,        \* calls of savePriceHistory in this run
    runs,         \* runs started so far
    observed,     \* per category, the prices categorized on the current date
    \* ---- the adapter on its own
    apc,          \* "input" | "parsed"
    payload,      \* the provider's JSON body
    parsed        \* what parseAmadeusFlights did with it

vars == <<day, hour, file, pc, token, flights, categories, loaded, history,
          alerts, emails, emailEnv, failure, startedAt, loads, saves, runs,
          observed, apc, payload, parsed>>

runVars == <<pc, token, flights, categories, loaded, history, alerts, emails,
             emailEnv, failure, startedAt, loads, saves, runs, observed>>

adapterVars == <<apc, payload, parsed>>

----------------------------------------------------------------------------
\* Bounds of the model

\* longest provider payload explored by the adapter specification
MaxOffers == 2

\* longest provider payload a run receives
MaxRunOffers == 2

\* last calendar date of the clock (dates are 0 .. MaxDay)
MaxDay == 1

\* runs of main() explored
MaxRuns == 3

----------------------------------------------------------------------------
\* Configuration (FLIGHT_CONFIG) and documented limits

maxStops == 1

priceDropThreshold == 300

excludedAirlines == {"I5", "AK"}

\* README: "Budget-aware filtering (Rs 20,000 max)"
maxBudget == 20000

\* if (depTime < 18) return null
departureHourStart == 18

\* if (retTime < 12 || retTime >= 17) return null
returnHourStart == 12

returnHourEnd == 17

----------------------------------------------------------------------------
\* Provider payload

\* one segment of an itinerary: its carrier and the hour of departure.at
Segment(carrier, h) == [carrierCode |-> carrier, hour |-> h]

\* one itinerary: n segments and an ISO duration PT<h>H<m>M given as <<h, m>>
\* (<<>> when the field is missing)
Itinerary(carrier, h, n, dur) ==
    [segments |-> [i \in 1..n |-> Segment(carrier, h)], duration |-> dur]

\* a round-trip offer of the provider; price is <<>> when the price object is
\* missing, else <<total>>
RawOffer(id, total, carrier, depHour, outSegs, outDur, retHour, retSegs, retDur) ==
    [id |-> id, price |-> <<total>>,
     itineraries |-> <<Itinerary(carrier, depHour, outSegs, outDur),
                       Itinerary(carrier, retHour, retSegs, retDur)>>]

\* the same offer without its return itinerary
OneWay(o) == [o EXCEPT !.itineraries = <<o.itineraries[1]>>]

\* the same offer without its price object
NoPrice(o) == [o EXCEPT !.price = <<>>]

\* the same offer with an outbound itinerary that has no segment
NoSegment(o) == [o EXCEPT !.itineraries[1].segments = <<>>]

\* ISO durations PT2H30M, PT2H, PT3H10M
PT2H30M == <<2, 30>>

PT2H == <<2, 0>>

PT3H10M == <<3, 10>>

\* well-formed offers that pass every rule of the adapter
GoodOffers ==
    { RawOffer(1,  9750, "6E", 18, 1, PT2H30M, 12, 1, PT2H30M),
      RawOffer(2,  9700, "UK", 19, 1, PT2H30M, 16, 1, PT2H30M),
      RawOffer(3, 10000, "SG", 18, 2, PT2H,    12, 1, PT2H30M),
      RawOffer(4,  9700, "XX", 20, 2, PT3H10M, 13, 2, PT3H10M),
      RawOffer(5,  9800, "G8", 18, 1, PT2H,    12, 2, PT3H10M) }

\* well-formed offers whose price is outside (0, maxBudget]
BadPriceOffers ==
    { RawOffer(6, 25000, "6E", 18, 1, PT2H,    12, 1, PT2H),
      RawOffer(7,     0, "6E", 18, 2, PT2H30M, 12, 1, PT2H30M) }

\* well-formed offers that break one rule of the adapter each
RejectedOffers ==
    { RawOffer(8,  9700, "I5", 18, 1, PT2H, 12, 1, PT2H),
      RawOffer(9,  9700, "6E", 17, 1, PT2H, 12, 1, PT2H),
      RawOffer(10, 9700, "6E", 18, 1, PT2H, 11, 1, PT2H),
      RawOffer(11, 9700, "6E", 18, 1, PT2H, 17, 1, PT2H),
      RawOffer(12, 9700, "6E", 18, 3, PT2H, 12, 1, PT2H),
      RawOffer(13, 9700, "6E", 18, 1, PT2H, 12, 3, PT2H) }

\* offers with a missing field
MalformedOffers ==
    { NoPrice(RawOffer(14, 9700, "6E", 18, 1, PT2H, 12, 1, PT2H)),
      OneWay(RawOffer(15, 9700, "6E", 18, 1, PT2H, 12, 1, PT2H)),
      NoSegment(RawOffer(16, 9700, "6E", 18, 1, PT2H, 12, 1, PT2H)),
      RawOffer(17, 9700, "6E", 18, 1, <<>>, 12, 1, PT2H),
      RawOffer(18, 9700, "6E", 18, 1, PT2H, 12, 1, <<>>),
      OneWay(RawOffer(19, 9700, "AK", 18, 1, PT2H, 12, 1, PT2H)),
      RawOffer(20, 9700, "6E", 17, 1, <<>>, 12, 1, PT2H) }

AdapterOffers == GoodOffers \cup BadPriceOffers \cup RejectedOffers \cup MalformedOffers

\* sequences over S of length at most n
SeqUpTo(S, n) == UNION { [1..k -> S] : k \in 0..n }

\* a JSON body: <<>> when it has no data array, else <<the data array>>
Payloads(S, n) == {<<>>} \cup { <<d>> : d \in SeqUpTo(S, n) }

----------------------------------------------------------------------------
\* The adapter

WellFormed(o) ==
    /\ Len(o.price) = 1
    /\ Len(o.itineraries) = 2
    /\ \A i \in 1..2 : /\ Len(o.itineraries[i].segments) >= 1
                       /\ Len(o.itineraries[i].duration) = 2

getAirlineName(code) ==
    CASE code = "6E" -> "IndiGo"
      [] code = "UK" -> "Vistara"
      [] code = "SG" -> "SpiceJet"
      [] code = "AI" -> "Air India"
      [] code = "I5" -> "Air India Express"
      [] code = "AK" -> "AirAsia"
      [] code = "G8" -> "Go First"
      [] OTHER -> code

\* PT<h>H<m>M in minutes
parseDuration(isoDuration) == isoDuration[1] * 60 + isoDuration[2]

refundableMarkupPercent == 15

\* Math.round(price * (1 + refundableMarkup)) for a whole price >= 0
RefundablePrice(price) == (price * (100 + refundableMarkupPercent) + 50) \div 100

\* the callback of data.data.map: "throw" (a TypeError on a missing field),
\* "null" (the offer is rejected) or "flight", in the order the code reads and
\* tests the fields
ParseOffer(offer) ==
    LET its == offer.itineraries IN
    IF Len(offer.price) = 0 \/ Len(its) = 0 \/ Len(its[1].segments) = 0
    THEN [kind |-> "throw"]
    ELSE
    LET outbound == its[1]
        airlineCode == outbound.segments[1].carrierCode
    IN
    IF airlineCode \in excludedAirlines THEN [kind |-> "null"]
    ELSE IF Len(its) < 2 \/ Len(its[2].segments) = 0 THEN [kind |-> "throw"]
    ELSE
    LET returnFlight == its[2]
        outboundStops == Len(outbound.segments) - 1
        returnStops == Len(returnFlight.segments) - 1
        depTime == outbound.segments[1].hour
        retTime == returnFlight.segments[1].hour
        price == offer.price[1]
    IN
    IF depTime < departureHourStart THEN [kind |-> "null"]
    ELSE IF retTime < returnHourStart \/ retTime >= returnHourEnd THEN [kind |-> "null"]
    ELSE IF outboundStops > maxStops \/ returnStops > maxStops THEN [kind |-> "null"]
    ELSE IF Len(outbound.duration) = 0 \/ Len(returnFlight.duration) = 0
    THEN [kind |-> "throw"]
    ELSE [kind |-> "flight",
          flight |-> [id |-> offer.id,
                      airline |-> getAirlineName(airlineCode),
                      airlineCode |-> airlineCode,
                      price |-> price,
                      refundablePrice |-> RefundablePrice(price),
                      outbound |-> [stops |-> outboundStops],
                      return |-> [stops |-> returnStops],
                      totalDuration |-> parseDuration(outbound.duration)
                                        + parseDuration(returnFlight.duration)]]

\* parseAmadeusFlights(data): threw is TRUE when the map callback throws on a
\* record (the exception leaves the function, no flight is returned)
parseAmadeusFlights(data) ==
    IF data = <<>> THEN [threw |-> FALSE, flights |-> <<>>]
    ELSE
    LET mapped == [i \in 1..Len(data[1]) |-> ParseOffer(data[1][i])]
        IsFlight(r) == r.kind = "flight"
        kept == SelectSeq(mapped, IsFlight)
    IN
    IF \E i \in 1..Len(mapped) : mapped[i].kind = "throw"
    THEN [threw |-> TRUE, flights |-> <<>>]
    ELSE [threw |-> FALSE, flights |-> [i \in 1..Len(kept) |-> kept[i].flight]]

\* mutant: on equal durations the later flight wins
RECURSIVE ReduceShortestLast(_, _)
ReduceShortestLast(s, i) ==
    IF i = 1 THEN s[1]
    ELSE LET min == ReduceShortestLast(s, i - 1)
         IN IF s[i].totalDuration <= min.totalDuration THEN s[i] ELSE min

\* flights.reduce((min, f) => f.totalDuration < min.totalDuration ? f : min)
\* over s[1..i], i >= 1
RECURSIVE ReduceShortest(_, _)
ReduceShortest(s, i) ==
    IF i = 1 THEN s[1]
    ELSE LET min == ReduceShortest(s, i - 1)
         IN IF s[i].totalDuration < min.totalDuration THEN s[i] ELSE min

\* flights.reduce((min, f) => f.price < min.price ? f : min) over s[1..i], i >= 1
RECURSIVE ReduceCheapest(_, _)
ReduceCheapest(s, i) ==
    IF i = 1 THEN s[1]
    ELSE LET min == ReduceCheapest(s, i - 1)
         IN IF s[i].price < min.price THEN s[i] ELSE min

IsDirect(f) == f.outbound.stops = 0

IsOneStop(f) == f.outbound.stops = 1 \/ f.return.stops = 1

\* categorizeFlights(flights): <<>> for null, else <<{fastest, cheapest, bestOneStop}>>
categorizeFlights(fl) ==
    IF Len(fl) = 0 THEN <<>>
    ELSE
    LET directFlights == SelectSeq(fl, IsDirect)
        oneStopFlights == SelectSeq(fl, IsOneStop)
    IN
    << [fastest |-> IF Len(directFlights) > 0
                    THEN ReduceShortest(directFlights, Len(directFlights))
                    ELSE ReduceShortest(fl, Len(fl)),
        cheapest |-> ReduceCheapest(fl, Len(fl)),
        bestOneStop |-> IF Len(oneStopFlights) > 0
                        THEN <<ReduceCheapest(oneStopFlights, Len(oneStopFlights))>>
                        ELSE <<>>] >>

----------------------------------------------------------------------------
\* The price history store and the clock

Categories == {"fastest", "cheapest", "bestOneStop"}

\* the hours of day at which the clock is read
Hours == {9, 10, 11}

\* return { daily: [], lastCheck: null }
EmptyHistory == [daily |-> <<>>, lastCheck |-> <<>>]

\* loadPriceHistory(): the parsed file, or the empty history when there is none
loadPriceHistory == IF file = <<>> THEN EmptyHistory ELSE file[1]

\* is10AM(): now.getHours() === 10 && now.getMinutes() < 60
is10AM == hour = 10

\* getTodayString()
getTodayString == day

\* mutant: the latest entry is taken as today's, whatever its date
FindTodayLast(h, today) == Len(h.daily)

\* history.daily.find(d => d.date === today) as an index, 0 when there is none
FindToday(h, today) ==
    IF \E i \in 1..Len(h.daily) : h.daily[i].date = today
    THEN CHOOSE i \in 1..Len(h.daily) :
            /\ h.daily[i].date = today
            /\ \A j \in 1..(i - 1) : h.daily[j].date # today
    ELSE 0

\* categories.bestOneStop ? categories.bestOneStop.price : null
OneStopPrice(cats) ==
    IF cats.bestOneStop # <<>> THEN <<cats.bestOneStop[1].price>> ELSE <<>>

\* mutant: the entry's fastest baseline is taken from the cheapest flight
NewEntrySwapped(today, cats) ==
    [date |-> today,
     fastest |-> cats.cheapest.price,
     cheapest |-> cats.cheapest.price,
     bestOneStop |-> OneStopPrice(cats)]

\* the entry main() builds when today has none
NewEntry(today, cats) ==
    [date |-> today,
     fastest |-> cats.fastest.price,
     cheapest |-> cats.cheapest.price,
     bestOneStop |-> OneStopPrice(cats)]

\* mutant: the entry is pushed without looking for today's
GetOrCreateAlways(h, today, cats) ==
    [h EXCEPT !.daily = Append(@, NewEntry(today, cats))]

\* if (!todayHistory) { todayHistory = {...}; history.daily.push(todayHistory); }
GetOrCreateToday(h, today, cats) ==
    IF FindToday(h, today) = 0
    THEN [h EXCEPT !.daily = Append(@, NewEntry(today, cats))]
    ELSE h

\* a number or null used as a condition: null and 0 are falsy
Truthy(opt) == opt # <<>> /\ opt[1] # 0

\* mutant: the 10 AM branch keeps a baseline that is already lower
UpdateBaselineIfLower(entry, cats) ==
    [entry EXCEPT
        !.fastest = IF cats.fastest.price < @ THEN cats.fastest.price ELSE @,
        !.cheapest = IF cats.cheapest.price < @ THEN cats.cheapest.price ELSE @,
        !.bestOneStop = OneStopPrice(cats)]

\* the 10 AM branch: todayHistory.<category> = categories.<category>.price
UpdateBaseline(entry, cats) ==
    [entry EXCEPT !.fastest = cats.fastest.price,
                  !.cheapest = cats.cheapest.price,
                  !.bestOneStop = OneStopPrice(cats)]

\* mutant: a drop of exactly the threshold is not a drop
FastestDroppedStrict(entry, cats) ==
    cats.fastest.price < entry.fastest - priceDropThreshold

\* categories.fastest.price <= todayHistory.fastest - priceDropThreshold
FastestDropped(entry, cats) ==
    cats.fastest.price <= entry.fastest - priceDropThreshold

\* categories.cheapest.price <= todayHistory.cheapest - priceDropThreshold
CheapestDropped(entry, cats) ==
    cats.cheapest.price <= entry.cheapest - priceDropThreshold

\* categories.bestOneStop && todayHistory.bestOneStop && price <= baseline - threshold
OneStopDropped(entry, cats) ==
    /\ cats.bestOneStop # <<>>
    /\ Truthy(entry.bestOneStop)
    /\ cats.bestOneStop[1].price <= entry.bestOneStop[1] - priceDropThreshold

Alert(category, flight, oldPrice) ==
    [category |-> category, flight |-> flight,
     oldPrice |-> oldPrice, newPrice |-> flight.price]

\* the alerts array after the three comparisons, in the order they are made
PriceDropAlerts(entry, cats) ==
    (IF FastestDropped(entry, cats)
     THEN <<Alert("Fastest Flight", cats.fastest, entry.fastest)>> ELSE <<>>)
    \o (IF CheapestDropped(entry, cats)
        THEN <<Alert("Cheapest Flight", cats.cheapest, entry.cheapest)>> ELSE <<>>)
    \o (IF OneStopDropped(entry, cats)
        THEN <<Alert("Best 1-Stop", cats.bestOneStop[1], entry.bestOneStop[1])>>
        ELSE <<>>)

\* mutant: the routine check stores the current prices, dropped or not
LowerBaselineAlways(entry, cats) ==
    [entry EXCEPT !.fastest = cats.fastest.price,
                  !.cheapest = cats.cheapest.price]

\* today's entry after the three comparisons: a category that dropped takes the
\* current price, the others are not assigned
LowerBaseline(entry, cats) ==
    [entry EXCEPT
        !.fastest = IF FastestDropped(entry, cats) THEN cats.fastest.price ELSE @,
        !.cheapest = IF CheapestDropped(entry, cats) THEN cats.cheapest.price ELSE @,
        !.bestOneStop = IF OneStopDropped(entry, cats)
                        THEN <<cats.bestOneStop[1].price>> ELSE @]

\* mutant: the transport error is not caught in sendEmail
sendEmailUncaught(env) == env # "failed"

\* whether the promise of sendEmail resolves: it returns early without
\* credentials, returns after sendMail, and its catch logs a transport error
\* without rethrowing
sendEmailResolves(env) ==
    CASE env = "skipped" -> TRUE
      [] env = "failed" -> TRUE
      [] OTHER -> TRUE

\* one sendEmail call: it returns in every case ("skipped" without credentials,
\* "failed" when the transport throws and the catch logs it)
SendEmail(kind, subject) == [kind |-> kind, subject |-> subject, outcome |-> emailEnv']

\* the e-mails of the alerts, one per alert, in order
DropEmails(al) ==
    [i \in 1..Len(al) |->
        SendEmail("price-drop", <<al[i].category, al[i].oldPrice - al[i].newPrice>>)]

\* mutant: the 10 AM branch sends nothing
SummaryEmailsNone == <<>>

\* await sendEmail('Daily Flight Update - Delhi to Goa (14 Nov)', emailHtml)
SummaryEmails == <<SendEmail("summary", <<"Daily Flight Update">>)>>

\* mutant: lastCheck is not set
StampNot(h) == h

\* history.lastCheck = new Date().toISOString()
Stamp(h) == [h EXCEPT !.lastCheck = <<[day |-> day, hour |-> hour]>>]

\* savePriceHistory(history): the file holds the serialized history
savePriceHistory(h) == <<h>>

\* the prices a run categorized, added to what was seen on this date
Observe(cats) ==
    [c \in Categories |->
        CASE c = "fastest" -> observed[c] \cup {cats.fastest.price}
          [] c = "cheapest" -> observed[c] \cup {cats.cheapest.price}
          [] OTHER -> observed[c] \cup (IF cats.bestOneStop = <<>> THEN {}
                                        ELSE {cats.bestOneStop[1].price})]

----------------------------------------------------------------------------
\* One run of main()

\* the offers a run's provider may return: a direct one, two with one stop, one
\* without its outbound duration
RunOffers == { o \in AdapterOffers : o.id \in {1, 3, 4, 17} }

Idle == pc \in {"idle", "done", "fatal"}

\* mutant: the catch of searchFlights rethrows, as that of getAmadeusToken does
searchFlightsRethrow == [pc |-> "fatal", flights |-> <<>>]

\* the catch of searchFlights: console.error(...); return [];  main() goes on
searchFlightsCatch == [pc |-> "searched", flights |-> <<>>]

\* what a new run starts from
ResetRun ==
    /\ runs' = runs + 1
    /\ flights' = <<>>
    /\ categories' = <<>>
    /\ loaded' = <<>>
    /\ history' = <<>>
    /\ alerts' = <<>>
    /\ emails' = <<>>
    /\ emailEnv' = "none"
    /\ startedAt' = [day |-> day, hour |-> hour]
    /\ loads' = 0
    /\ saves' = 0

\* the clock moves on between runs
Tick ==
    /\ Idle
    /\ \/ /\ hour < 11
          /\ hour' = hour + 1
          /\ UNCHANGED <<day, observed>>
       \/ /\ hour = 11
          /\ day < MaxDay
          /\ hour' = 9
          /\ day' = day + 1
          /\ observed' = [c \in Categories |-> {}]
    /\ UNCHANGED <<file, pc, token, flights, categories, loaded, history, alerts,
                   emails, emailEnv, failure, startedAt, loads, saves, runs>>
    /\ UNCHANGED adapterVars

\* main() starts; getAmadeusToken() returns data.access_token
GetTokenOk ==
    /\ Idle
    /\ runs < MaxRuns
    /\ ResetRun
    /\ token' = <<"token">>
    /\ failure' = "none"
    /\ pc' = "token"
    /\ UNCHANGED <<day, hour, file, observed>>
    /\ UNCHANGED adapterVars

\* main() starts; the token endpoint answers with a JSON error body (bad
\* credentials): data.access_token is undefined, nothing is thrown
GetTokenRejected ==
    /\ Idle
    /\ runs < MaxRuns
    /\ ResetRun
    /\ token' = <<>>
    /\ failure' = "token-rejected"
    /\ pc' = "token"
    /\ UNCHANGED <<day, hour, file, observed>>
    /\ UNCHANGED adapterVars

\* main() starts; fetch() or response.json() throws in getAmadeusToken, the catch
\* rethrows, main() rejects and main().catch exits with status 1
GetTokenThrows ==
    /\ Idle
    /\ runs < MaxRuns
    /\ ResetRun
    /\ token' = <<>>
    /\ failure' = "token-threw"
    /\ pc' = "fatal"
    /\ UNCHANGED <<day, hour, file, observed>>
    /\ UNCHANGED adapterVars

\* searchFlights(token): the request fails (network error, or response.ok false:
\* the only answer to a request without a valid token) and the catch returns []
SearchFails ==
    /\ pc = "token"
    /\ flights' = searchFlightsCatch.flights
    /\ pc' = searchFlightsCatch.pc
    /\ failure' = IF failure = "none" THEN "search-failed" ELSE failure
    /\ UNCHANGED <<day, hour, file, token, categories, loaded, history, alerts,
                   emails, emailEnv, startedAt, loads, saves, runs, observed>>
    /\ UNCHANGED adapterVars

\* searchFlights(token): the provider answers; the body is parsed, and an
\* exception of parseAmadeusFlights is caught and turned into []
SearchAnswers ==
    /\ pc = "token"
    /\ token # <<>>
    /\ \E body \in Payloads(RunOffers, MaxRunOffers) :
          LET r == parseAmadeusFlights(body)
          IN flights' = IF r.threw THEN <<>> ELSE r.flights
    /\ pc' = "searched"
    /\ UNCHANGED <<day, hour, file, token, categories, loaded, history, alerts,
                   emails, emailEnv, failure, startedAt, loads, saves, runs, observed>>
    /\ UNCHANGED adapterVars

\* if (flights.length === 0) return;  if (!categories) return;
NoFlights ==
    /\ pc = "searched"
    /\ Len(flights) = 0 \/ categorizeFlights(flights) = <<>>
    /\ pc' = "done"
    /\ token' = <<>>
    /\ flights' = <<>>
    /\ UNCHANGED <<day, hour, file, categories, loaded, history,
                   alerts, emails, emailEnv, failure, startedAt, loads, saves, runs,
                   observed>>
    /\ UNCHANGED adapterVars

\* the rest of main() at 10 AM: categorize, load, find or create today's entry,
\* send the summary, update today's baseline, save
DailySummary ==
    /\ pc = "searched"
    /\ Len(flights) > 0
    /\ categorizeFlights(flights) # <<>>
    /\ is10AM
    /\ LET cats == categorizeFlights(flights)[1]
           today == getTodayString
           before == loadPriceHistory
           h == GetOrCreateToday(before, today, cats)
           i == FindToday(h, today)
           after == [h EXCEPT !.daily[i] = UpdateBaseline(@, cats)]
       IN /\ categories' = <<cats>>
          /\ loads' = loads + 1
          /\ loaded' = IF FindToday(before, today) = 0 THEN <<>>
                       ELSE <<before.daily[FindToday(before, today)]>>
          /\ \E env \in {"sent", "skipped", "failed"} : emailEnv' = env
          /\ emails' = SummaryEmails
          /\ alerts' = <<>>
          /\ observed' = Observe(cats)
          /\ IF sendEmailResolves(emailEnv')
             THEN /\ history' = <<Stamp(after)>>
                  /\ saves' = saves + 1
                  /\ file' = savePriceHistory(Stamp(after))
                  /\ pc' = "done"
             ELSE \* await sendEmail(...) rejects: main() rejects at line 543
                  /\ history' = <<h>>
                  /\ UNCHANGED <<saves, file>>
                  /\ pc' = "fatal"
    /\ token' = <<>>
    /\ flights' = <<>>
    /\ UNCHANGED <<day, hour, failure, startedAt, runs>>
    /\ UNCHANGED adapterVars

\* the rest of main() at any other hour: categorize, load, find or create
\* today's entry, compare each category with its baseline, send one e-mail per
\* alert, save
RoutineCheck ==
    /\ pc = "searched"
    /\ Len(flights) > 0
    /\ categorizeFlights(flights) # <<>>
    /\ ~is10AM
    /\ LET cats == categorizeFlights(flights)[1]
           today == getTodayString
           before == loadPriceHistory
           h == GetOrCreateToday(before, today, cats)
           i == FindToday(h, today)
           al == PriceDropAlerts(h.daily[i], cats)
           after == [h EXCEPT !.daily[i] = LowerBaseline(@, cats)]
       IN /\ categories' = <<cats>>
          /\ loads' = loads + 1
          /\ loaded' = IF FindToday(before, today) = 0 THEN <<>>
                       ELSE <<before.daily[FindToday(before, today)]>>
          /\ alerts' = al
          /\ IF Len(al) > 0
             THEN \E env \in {"sent", "skipped", "failed"} : emailEnv' = env
             ELSE emailEnv' = emailEnv
          /\ observed' = Observe(cats)
          /\ IF Len(al) = 0 \/ sendEmailResolves(emailEnv')
             THEN /\ emails' = DropEmails(al)
                  /\ history' = <<Stamp(after)>>
                  /\ saves' = saves + 1
                  /\ file' = savePriceHistory(Stamp(after))
                  /\ pc' = "done"
             ELSE \* await sendEmail(...) rejects: main() rejects at line 595
                  /\ emails' = SubSeq(DropEmails(al), 1, 1)
                  /\ history' = <<after>>
                  /\ UNCHANGED <<saves, file>>
                  /\ pc' = "fatal"
    /\ token' = <<>>
    /\ flights' = <<>>
    /\ UNCHANGED <<day, hour, failure, startedAt, runs>>
    /\ UNCHANGED adapterVars

Init ==
    /\ day = 0
    /\ hour = 9
    /\ file = <<>>
    /\ pc = "idle"
    /\ token = <<>>
    /\ flights = <<>>
    /\ categories = <<>>
    /\ loaded = <<>>
    /\ history = <<>>
    /\ alerts = <<>>
    /\ emails = <<>>
    /\ emailEnv = "none"
    /\ failure = "none"
    /\ startedAt = [day |-> 0, hour |-> 9]
    /\ loads = 0
    /\ saves = 0
    /\ runs = 0
    /\ observed = [c \in Categories |-> {}]
    /\ apc = "off"
    /\ payload = <<>>
    /\ parsed = [threw |-> FALSE, flights |-> <<>>]

Next ==
    \/ Tick
    \/ GetTokenOk
    \/ GetTokenRejected
    \/ GetTokenThrows
    \/ SearchFails
    \/ SearchAnswers
    \/ NoFlights
    \/ DailySummary
    \/ RoutineCheck

Spec == Init /\ [][Next]_vars

----------------------------------------------------------------------------
\* The adapter and the categorizer on every payload

InitAdapter ==
    /\ day = 0
    /\ hour = 9
    /\ file = <<>>
    /\ pc = "idle"
    /\ token = <<>>
    /\ flights = <<>>
    /\ categories = <<>>
    /\ loaded = <<>>
    /\ history = <<>>
    /\ alerts = <<>>
    /\ emails = <<>>
    /\ emailEnv = "none"
    /\ failure = "none"
    /\ startedAt = [day |-> 0, hour |-> 9]
    /\ loads = 0
    /\ saves = 0
    /\ runs = 0
    /\ observed = [c \in Categories |-> {}]
    /\ apc = "input"
    /\ payload \in Payloads(AdapterOffers, MaxOffers)
    /\ parsed = [threw |-> FALSE, flights |-> <<>>]

\* return parseAmadeusFlights(data)
ParsePayload ==
    /\ apc = "input"
    /\ parsed' = parseAmadeusFlights(payload)
    /\ apc' = "parsed"
    /\ UNCHANGED <<day, hour, file, payload>>
    /\ UNCHANGED runVars

\* searchFlights returns the parsed flights, or [] from its catch
ReturnFlights ==
    /\ apc = "parsed"
    /\ flights' = IF parsed.threw THEN searchFlightsCatch.flights ELSE parsed.flights
    /\ apc' = "returned"
    /\ UNCHANGED <<day, hour, file, payload, parsed>>
    /\ UNCHANGED <<pc, token, categories, loaded, history, alerts, emails, emailEnv,
                   failure, startedAt, loads, saves, runs, observed>>

\* const categories = categorizeFlights(flights), reached with flights.length > 0
Categorize ==
    /\ apc = "returned"
    /\ Len(flights) > 0
    /\ categories' = categorizeFlights(flights)
    /\ apc' = "categorized"
    /\ UNCHANGED <<day, hour, file, payload, parsed>>
    /\ UNCHANGED <<pc, token, flights, loaded, history, alerts, emails, emailEnv,
                   failure, startedAt, loads, saves, runs, observed>>

NextAdapter ==
    \/ ParsePayload
    \/ ReturnFlights
    \/ Categorize

SpecAdapter == InitAdapter /\ [][NextAdapter]_vars

----------------------------------------------------------------------------
\* Vocabulary of the properties

\* the run has ended normally and had offers to categorize
RanToEnd == pc = "done" /\ categories # <<>>

SummaryRun == startedAt.hour = 10

RoutineRun == startedAt.hour # 10

\* the entry of date d in history h (there is one)
EntryOf(h, d) == h.daily[FindToday(h, d)]

\* today's entry as the run left it
FinalEntry == EntryOf(history[1], startedAt.day)

\* the alerts of the run for one category
AlertsFor(name) == { i \in 1..Len(alerts) : alerts[i].category = name }

\* the current price of each category as an optional value
CurrentPrice(cats, c) ==
    CASE c = "fastest" -> <<cats.fastest.price>>
      [] c = "cheapest" -> <<cats.cheapest.price>>
      [] OTHER -> OneStopPrice(cats)

\* the baseline of each category as an optional value
Baseline(entry, c) ==
    CASE c = "fastest" -> <<entry.fastest>>
      [] c = "cheapest" -> <<entry.cheapest>>
      [] OTHER -> entry.bestOneStop

AlertName(c) ==
    CASE c = "fastest" -> "Fastest Flight"
      [] c = "cheapest" -> "Cheapest Flight"
      [] OTHER -> "Best 1-Stop"

\* the least element of a non-empty set of numbers
Min(S) == CHOOSE x \in S : \A y \in S : x <= y

\* the dates of a history are pairwise different
UniqueDates(h) ==
    \A i, j \in 1..Len(h.daily) : h.daily[i].date = h.daily[j].date => i = j

----------------------------------------------------------------------------
\* C1: in a routine check, for every category present in the current
\* categorization and in today's baseline as loaded, an alert is emitted if and
\* only if currentPrice <= baseline - priceDropThreshold; the alert carries
\* the loaded baseline as oldPrice and the current price as newPrice, and the
\* category's baseline after the run is the current price.
C1Theorem ==
    (RanToEnd /\ RoutineRun /\ loaded # <<>>) =>
        \A c \in Categories :
            LET cur == CurrentPrice(categories[1], c)
                base == Baseline(loaded[1], c)
            IN (cur # <<>> /\ base # <<>>) =>
                /\ (AlertsFor(AlertName(c)) # {}) <=> (cur[1] <= base[1] - priceDropThreshold)
                /\ Cardinality(AlertsFor(AlertName(c))) <= 1
                /\ \A i \in AlertsFor(AlertName(c)) :
                      /\ alerts[i].oldPrice = base[1]
                      /\ alerts[i].newPrice = cur[1]
                      /\ Baseline(FinalEntry, c) = cur

\* a routine check that found a baseline of 10000, saw 9700 and alerted
C1Witness ==
    /\ RanToEnd /\ RoutineRun /\ loaded # <<>>
    /\ \E c \in Categories : \E i \in AlertsFor(AlertName(c)) :
          /\ alerts[i].oldPrice = 10000
          /\ alerts[i].newPrice = 9700
          /\ Baseline(FinalEntry, c) = <<9700>>
    /\ \E c \in Categories :
          /\ AlertsFor(AlertName(c)) = {}
          /\ CurrentPrice(categories[1], c) # <<>>
          /\ Baseline(loaded[1], c) # <<>>
          /\ CurrentPrice(categories[1], c)[1] < Baseline(loaded[1], c)[1]

\* C2: in every step that is not a daily-summary run and keeps the date, each
\* baseline of today's stored entry does not increase, and it changes only
\* when the run emits an alert for that category.
C2Theorem ==
    [][ ( /\ day' = day
          /\ file # <<>>
          /\ FindToday(file[1], day) # 0
          /\ ~(pc = "searched" /\ is10AM) )
        => ( /\ file' # <<>>
             /\ FindToday(file'[1], day) # 0
             /\ \A c \in Categories :
                  LET old == Baseline(EntryOf(file[1], day), c)
                      new == Baseline(EntryOf(file'[1], day), c)
                  IN /\ Len(new) = Len(old)
                     /\ old # <<>> => new[1] <= old[1]
                     /\ new # old => AlertsFor(AlertName(c))' # {} ) ]_vars

\* a routine check that saw one price above its baseline and another below it
\* by less than the threshold, and kept both baselines
C2Witness ==
    /\ RanToEnd /\ RoutineRun /\ loaded # <<>>
    /\ alerts = <<>>
    /\ categories[1].fastest.price > loaded[1].fastest
    /\ categories[1].cheapest.price < loaded[1].cheapest
    /\ FinalEntry = loaded[1]

\* C3: after a daily-summary run that had offers, today's baseline is the
\* current run's prices (bestOneStop null when absent), whatever it was,
\* and the saved file holds it.
C3Theorem ==
    (RanToEnd /\ SummaryRun) =>
        /\ \A c \in Categories :
              Baseline(FinalEntry, c) = CurrentPrice(categories[1], c)
        /\ file = history

\* a daily summary whose e-mail was not delivered and whose prices are above
\* the baseline it found
C3Witness ==
    /\ RanToEnd /\ SummaryRun /\ loaded # <<>>
    /\ emails[1].outcome # "sent"
    /\ categories[1].fastest.price > loaded[1].fastest
    /\ categories[1].bestOneStop = <<>>
    /\ loaded[1].bestOneStop # <<>>

\* C4 as stated: every run in daily-summary mode that ends produces exactly
\* one summary notification and no price-drop alert, also when the fetch
\* yields no offer.
C4Original ==
    (pc = "done" /\ SummaryRun) =>
        /\ Len(emails) = 1
        /\ emails[1].kind = "summary"
        /\ alerts = <<>>

\* C4 amended: a daily-summary run that has at least one offer after filtering
\* produces exactly one summary notification and no price-drop alert; a
\* daily-summary run without offers, or one whose token request throws,
\* produces no notification.
C4Theorem ==
    (pc \in {"done", "fatal"} /\ SummaryRun) =>
        /\ alerts = <<>>
        /\ IF categories # <<>>
           THEN Len(emails) = 1 /\ emails[1].kind = "summary"
           ELSE emails = <<>>

C4Witness ==
    /\ RanToEnd /\ SummaryRun
    /\ Len(emails) = 1
    /\ emails[1].kind = "summary"

\* C5 as stated: between runs, each category's stored baseline of the current
\* date is the lowest price observed for it in the runs of that date.
C5Original ==
    (Idle /\ file # <<>> /\ FindToday(file[1], day) # 0) =>
        \A c \in Categories :
            Baseline(EntryOf(file[1], day), c) =
                IF observed[c] = {} THEN <<>> ELSE <<Min(observed[c])>>

\* C5 amended: between runs, each category's stored baseline of the current
\* date is one of the prices observed for it in the runs of that date, hence
\* never below the lowest of them (and null only for bestOneStop).
C5Theorem ==
    (Idle /\ file # <<>> /\ FindToday(file[1], day) # 0) =>
        \A c \in Categories :
            LET base == Baseline(EntryOf(file[1], day), c)
            IN IF base = <<>> THEN c = "bestOneStop"
               ELSE base[1] \in observed[c] /\ base[1] >= Min(observed[c])

\* a stored baseline above the lowest price observed on the date
C5Witness ==
    /\ Idle /\ file # <<>> /\ FindToday(file[1], day) # 0
    /\ \E c \in Categories :
          /\ Baseline(EntryOf(file[1], day), c) # <<>>
          /\ Baseline(EntryOf(file[1], day), c)[1] > Min(observed[c])

\* C6: the dates of the stored history are pairwise different, and a step that
\* writes the history appends one entry, built from the run's categorized
\* prices, exactly when the stored history has none for today; the entries of
\* other dates, and their order, are kept.
C6Theorem ==
    /\ [](file # <<>> => UniqueDates(file[1]))
    /\ [][ file' # file =>
             LET old == IF file = <<>> THEN EmptyHistory ELSE file[1]
                 new == file'[1]
                 n == Len(old.daily)
             IN IF FindToday(old, day) = 0
                THEN /\ Len(new.daily) = n + 1
                     /\ SubSeq(new.daily, 1, n) = old.daily
                     /\ new.daily[n + 1] = NewEntry(day, categories'[1])
                ELSE /\ Len(new.daily) = n
                     /\ \A i \in 1..n :
                           /\ new.daily[i].date = old.daily[i].date
                           /\ i # FindToday(old, day) => new.daily[i] = old.daily[i]
         ]_vars

\* a history of two dates, after a run that found today's entry in it
C6Witness ==
    /\ RanToEnd
    /\ loaded # <<>>
    /\ Len(file[1].daily) = 2
    /\ FindToday(file[1], day) = 2

\* C7 as stated: every run that ends without a fatal exception has read the
\* history once and written it once, with lastCheck the time of the run.
C7Original ==
    pc = "done" =>
        /\ loads = 1
        /\ saves = 1
        /\ file # <<>>
        /\ file[1].lastCheck = <<startedAt>>

\* C7 amended: a run that ends normally with at least one offer after
\* filtering has read the history once and written it once, as its last
\* step, with lastCheck the time of the run; a run that ends normally without
\* offers has neither read nor written the history.
C7Theorem ==
    /\ pc # "done" => loads = 0 /\ saves = 0
    /\ pc = "done" =>
          IF categories # <<>>
          THEN /\ loads = 1
               /\ saves = 1
               /\ file = history
               /\ file[1].lastCheck = <<startedAt>>
          ELSE loads = 0 /\ saves = 0 /\ history = <<>>

\* a second run of the day has read and written the history, an hour after the
\* first
C7Witness ==
    /\ RanToEnd
    /\ loaded # <<>>
    /\ loads = 1 /\ saves = 1
    /\ file[1].lastCheck = <<[day |-> 0, hour |-> 11]>>

\* C8 as stated: a provider failure, also one while obtaining the token, never
\* ends the run with a fatal error: the run ends normally with no offers.
C8Original ==
    (failure # "none" /\ Idle) => (pc = "done" /\ categories = <<>>)

\* C8 amended: a failure of the flight search, and a token request that the
\* provider rejects, are recovered as an empty offer set and the run ends
\* normally without touching the history; a token request that throws ends
\* the run with a fatal error.
C8Theorem ==
    /\ pc = "fatal" <=> failure = "token-threw"
    /\ (failure \in {"token-rejected", "search-failed"} /\ pc \in {"searched", "done"}) =>
          /\ flights = <<>>
          /\ categories = <<>>
          /\ loads = 0 /\ saves = 0
          /\ emails = <<>>

\* a run that ended normally after its search failed with a valid token
C8Witness ==
    /\ pc = "done"
    /\ failure = "search-failed"
    /\ file # <<>>

\* C9 as stated: on a payload that holds a malformed record beside a
\* well-formed one that passes the rules, the adapter does not throw and
\* returns every well-formed record that passes the rules.
C9Claim ==
    ( /\ apc # "input"
      /\ payload # <<>>
      /\ \E i \in 1..Len(payload[1]) : ~WellFormed(payload[1][i])
      /\ \E i \in 1..Len(payload[1]) :
            /\ WellFormed(payload[1][i])
            /\ ParseOffer(payload[1][i]).kind = "flight" ) =>
        /\ ~parsed.threw
        /\ parsed.flights =
              parseAmadeusFlights(<<SelectSeq(payload[1], WellFormed)>>).flights

\* C10 as stated: every offer that reaches the categorizer has a price above
\* 0 and at most maxBudget.
C10Claim ==
    apc = "categorized" =>
        \A i \in 1..Len(flights) :
            flights[i].price > 0 /\ flights[i].price <= maxBudget

\* the four rules of the adapter, read off a well-formed offer of the provider
PassesRules(o) ==
    /\ o.itineraries[1].segments[1].carrierCode \notin excludedAirlines
    /\ o.itineraries[1].segments[1].hour >= departureHourStart
    /\ o.itineraries[2].segments[1].hour >= returnHourStart
    /\ o.itineraries[2].segments[1].hour < returnHourEnd
    /\ Len(o.itineraries[1].segments) - 1 <= maxStops
    /\ Len(o.itineraries[2].segments) - 1 <= maxStops

\* the well-formed offers of a data array that pass the four rules, in order
ShouldBeKept(data) ==
    LET Keep(o) == WellFormed(o) /\ PassesRules(o) IN SelectSeq(data, Keep)

\* the returned flights are the offers of ShouldBeKept(data), one flight per
\* offer, in order, with the offer's id, price, carrier and stops
KeptExactly(data, out) ==
    LET want == ShouldBeKept(data)
    IN /\ Len(out) = Len(want)
       /\ \A i \in 1..Len(out) :
             /\ out[i].id = want[i].id
             /\ out[i].price = want[i].price[1]
             /\ out[i].airlineCode = want[i].itineraries[1].segments[1].carrierCode
             /\ out[i].outbound.stops = Len(want[i].itineraries[1].segments) - 1
             /\ out[i].return.stops = Len(want[i].itineraries[2].segments) - 1

\* C11 as stated: the flights the adapter returns are input offers, one per
\* kept offer and none fabricated, and an input offer is kept exactly when
\* its airline is not excluded, its outbound departure hour is >= 18, its
\* return departure hour is in [12, 17) and neither leg has more than
\* maxStops stops.
C11Claim ==
    (apc # "input" /\ payload # <<>>) => KeptExactly(payload[1], parsed.flights)

\* C11 on payloads without a malformed record: there the statement holds
C11OnWellFormedPayloads ==
    ( /\ apc # "input"
      /\ payload # <<>>
      /\ \A i \in 1..Len(payload[1]) : WellFormed(payload[1][i]) )
    => (~parsed.threw /\ KeptExactly(payload[1], parsed.flights))

\* the positions of fl among which the fastest is chosen: those with a
\* non-stop outbound leg when there is one, else all
FastestPool(fl) ==
    LET direct == { i \in 1..Len(fl) : fl[i].outbound.stops = 0 }
    IN IF direct # {} THEN direct ELSE 1..Len(fl)

\* the first position of the pool with the least total duration
FirstShortest(fl) ==
    CHOOSE k \in FastestPool(fl) :
        /\ \A i \in FastestPool(fl) : fl[k].totalDuration <= fl[i].totalDuration
        /\ \A i \in FastestPool(fl) :
              fl[i].totalDuration = fl[k].totalDuration => k <= i

\* C12: for a non-empty list, fastest is the first offer in input order with
\* the least total duration among the offers with a non-stop outbound leg
\* when there is one, else among all offers; an offer with a stop on the
\* outbound leg is not fastest while a non-stop one exists.
C12Theorem ==
    apc = "categorized" =>
        /\ categories # <<>>
        /\ categories[1].fastest = flights[FirstShortest(flights)]
        /\ (\E i \in 1..Len(flights) : flights[i].outbound.stops = 0)
              => categories[1].fastest.outbound.stops = 0

\* a list whose first offer has a stop on the outbound leg and is shorter than
\* the non-stop offer after it, which is fastest
C12Witness ==
    /\ apc = "categorized"
    /\ Len(flights) = 2
    /\ flights[1].outbound.stops = 1
    /\ flights[2].outbound.stops = 0
    /\ flights[1].totalDuration < flights[2].totalDuration
    /\ categories[1].fastest = flights[2]

\* the baseline a category has after a run, told from what the run loaded,
\* categorized and alerted, whatever became of its e-mails
ExpectedBaseline(c) ==
    IF SummaryRun \/ loaded = <<>> \/ AlertsFor(AlertName(c)) # {}
    THEN CurrentPrice(categories[1], c)
    ELSE Baseline(loaded[1], c)

\* C13: a run whose notifications were skipped or failed in transport ends
\* normally, has saved the history it built, and that history holds for
\* today the baselines a run with delivered notifications leaves: the
\* current prices after a summary, a first run of the date or an alert, the
\* loaded baseline otherwise.
C13Theorem ==
    (pc \in {"done", "fatal"} /\ emails # <<>>) =>
        /\ pc = "done"
        /\ \A i \in 1..Len(emails) : emails[i].outcome = emailEnv
        /\ Len(emails) = IF SummaryRun THEN 1 ELSE Len(alerts)
        /\ saves = 1
        /\ file = history
        /\ history[1].lastCheck = <<startedAt>>
        /\ \A c \in Categories : Baseline(FinalEntry, c) = ExpectedBaseline(c)

\* a routine check whose alert e-mail failed in transport and whose baseline
\* was lowered and saved all the same
C13Witness ==
    /\ pc = "done"
    /\ RoutineRun
    /\ alerts # <<>>
    /\ emailEnv = "failed"
    /\ emails[1].outcome = "failed"
    /\ file = history
    /\ FinalEntry # loaded[1]

\* C14: a routine check that finds no entry for today in the stored history
\* emits no alert and sends no e-mail; it appends an entry holding the
\* current run's prices and leaves the entries of earlier dates as they
\* were, whatever their baselines.
C14Theorem ==
    [][ ( /\ pc = "searched"
          /\ pc' = "done"
          /\ categories' # <<>>
          /\ ~is10AM
          /\ \A i \in 1..Len(loadPriceHistory.daily) :
                loadPriceHistory.daily[i].date # day )
        => ( /\ alerts' = <<>>
             /\ emails' = <<>>
             /\ loaded' = <<>>
             /\ file'[1].daily =
                   Append(loadPriceHistory.daily,
                          [date |-> day,
                           fastest |-> categories'[1].fastest.price,
                           cheapest |-> categories'[1].cheapest.price,
                           bestOneStop |-> CurrentPrice(categories'[1], "bestOneStop")]) )
      ]_vars

\* the first run of the second date, a routine check, whose prices are at
\* least the threshold below the baselines stored for the first date
C14Witness ==
    /\ RanToEnd
    /\ RoutineRun
    /\ loaded = <<>>
    /\ alerts = <<>>
    /\ Len(file[1].daily) = 2
    /\ file[1].daily[1].date # startedAt.day
    /\ categories[1].fastest.price <= file[1].daily[1].fastest - priceDropThreshold
    /\ categories[1].cheapest.price <= file[1].daily[1].cheapest - priceDropThreshold
    /\ file[1].daily[2].fastest = categories[1].fastest.price

====
